---- MODULE Spec2Model ----
(***************************************************************************)
(* GiftNFT server (src/server.js): the JSON-file store (loadDB, saveDB,    *)
(* transact) and the request handlers that run on it.                      *)
(*                                                                         *)
(* The durable document is the variable `file`.  Every request handler is  *)
(* an async function; Node runs the code between two awaits without        *)
(* interruption, so a handler is cut into steps at its awaits:             *)
(*   Submit   the synchronous checks made before transact is called        *)
(*   Load     transact: db = await loadDB()        (the file is read)      *)
(*   Mutate   the mutator up to its own `await saveDB(db)` or its return   *)
(*   Write1   the mutator's saveDB completes       (the file is replaced)  *)
(*   Respond  the mutator's code after its saveDB; transact calls saveDB   *)
(*   Write2   transact's saveDB completes          (the file is replaced)  *)
(* saveDB replaces the whole document at the moment its writeFile          *)
(* completes, and loadDB reads a whole document.  Timestamps (Date.now())  *)
(* are left out of the records; nanoid ids are the request's number.       *)
(*                                                                         *)
(* Three more steps are part of the specifications that name them:         *)
(*   LoadTorn     loadDB reads the file while a writeFile is in flight     *)
(*   Write1Fail, Write2Fail   the writeFile of a saveDB rejects            *)
(*   ArriveImport, ImportWrite   db/import, which saves without transact   *)
(***************************************************************************)
EXTENDS Integers, Sequences, FiniteSets, TLC

VARIABLES
  file,     \* the parsed content of ./data/db.json
  file0,    \* the content of the file when the first request arrived (never changes)
  pc,       \* per request: where its handler stands
  req,      \* per request: the body and the authenticated caller
  db,       \* per request: the object transact got from loadDB, as mutated so far
  loaded,   \* per request: what loadDB returned (never changes afterwards)
  resp,     \* per request: the HTTP answer, NoResp while there is none
  emitted   \* the socket.io emissions so far, in order

vars == <<file, file0, pc, req, db, loaded, resp, emitted>>

\* ------------------------------------------------------------- bounds
MaxReq == 2
MaxAmt == 2
MaxBal == 2
MaxPrice == 2
MaxLevel == 4

Reqs == 1..MaxReq

\* ---------------------------------------------------------- constants
\* TON_USD = 3.5, kept in cents of a dollar per TON
TON_USD_CENTS == 350

Users == {"u_admin", "u_1001", "u_1002"}

Role(u) == IF u = "u_admin" THEN "admin" ELSE "user"

\* tonAddress inputs and their .length
Addresses == {"EQ1", "EQabcd"}

StrLen(s) == CASE s = "" -> 0 [] s = "EQ1" -> 3 [] s = "EQabcd" -> 6

NoDB == [none |-> TRUE]

NoResp == [code |-> 0, error |-> ""]

\* a request body together with the authenticated caller (req.user)
NoReq ==
  [op |-> "", caller |-> "", amountTon |-> 0, tonAddress |-> "", id |-> 0,
   note |-> "", itemId |-> "", mode |-> "", toUserId |-> "",
   price |-> 0, delta |-> 0, fields |-> <<>>, items |-> <<>>, db |-> NoDB]

\* 'nft_'+(1000 + n)
ItemId(n) ==
  <<"nft_1000", "nft_1001", "nft_1002", "nft_1003", "nft_1004", "nft_1005">>[n + 1]

\* ------------------------------------------------------------ helpers
\* xs.find(x => x.id === id) on a sequence of records: the index of the first
\* match, 0 if there is none
FindById(xs, id) ==
  LET F[k \in 1..(Len(xs) + 1)] ==
        IF k > Len(xs) THEN 0 ELSE IF xs[k].id = id THEN k ELSE F[k + 1]
  IN F[1]

\* +(amt*TON_USD).toFixed(2), in cents
Usd(amt) == amt * TON_USD_CENTS

Event(ev, to, r) == [ev |-> ev, to |-> to, req |-> r]

Hist(userId, t, n, ref, ref2) ==
  [userId |-> userId, t |-> t, amountTon |-> n, ref |-> ref, ref2 |-> ref2]

\* the outcome of the synchronous part of a handler
Reject(d, code, error) ==
  [db |-> d, code |-> code, error |-> error, pre |-> <<>>, post |-> <<>>]

Accept(d, pre, post) ==
  [db |-> d, code |-> 200, error |-> "", pre |-> pre, post |-> post]

\* pushNotify: the record is appended and emitted to the user's room at once
PushNotify(d, r, userId, type, payId, amountTon) ==
  [d EXCEPT !.notifications =
     Append(@, [id |-> r, userId |-> userId, type |-> type, payId |-> payId,
                amountTon |-> amountTon, read |-> FALSE])]

\* ----------------------------------------------------------- handlers
\* The checks a handler (and the adminOnly middleware) makes before transact.
Precheck(q) ==
  CASE q.op \in {"deposit", "withdraw"} ->
         IF ~(q.amountTon > 0) THEN [code |-> 400, error |-> "amountTon > 0 required"]
         ELSE IF q.op = "withdraw" /\ (q.tonAddress = "" \/ StrLen(q.tonAddress) < 5)
           THEN [code |-> 400, error |-> "Valid tonAddress required"]
         ELSE NoResp
    [] q.op \in {"approve", "reject"} ->
         IF Role(q.caller) # "admin" THEN [code |-> 403, error |-> "Admin only"]
         ELSE IF q.id = 0 THEN [code |-> 400, error |-> "id required"]
         ELSE NoResp
    [] q.op = "pay" ->
         IF q.itemId = "" \/ q.mode = ""
           THEN [code |-> 400, error |-> "itemId and mode required"]
         ELSE NoResp
    [] q.op = "upgrade" ->
         IF q.itemId = "" THEN [code |-> 400, error |-> "id required"] ELSE NoResp
    [] q.op = "adminGift" ->
         IF Role(q.caller) # "admin" THEN [code |-> 403, error |-> "Admin only"]
         ELSE IF q.toUserId = "" \/ q.itemId = ""
           THEN [code |-> 400, error |-> "toUserId and itemId required"]
         ELSE NoResp
    [] q.op = "balance" ->
         IF Role(q.caller) # "admin" THEN [code |-> 403, error |-> "Admin only"]
         ELSE IF q.toUserId = ""
           THEN [code |-> 400, error |-> "userId and numeric delta required"]
         ELSE NoResp
    [] q.op = "itemsUpdate" ->
         IF Role(q.caller) # "admin" THEN [code |-> 403, error |-> "Admin only"]
         ELSE IF q.itemId = "" THEN [code |-> 400, error |-> "id required"]
         ELSE NoResp
    [] q.op = "bulkImport" ->
         IF Role(q.caller) # "admin" THEN [code |-> 403, error |-> "Admin only"]
         ELSE NoResp
    [] q.op = "transfer" ->
         IF Role(q.caller) # "admin" THEN [code |-> 403, error |-> "Admin only"]
         ELSE IF q.itemId = "" \/ q.toUserId = ""
           THEN [code |-> 400, error |-> "itemId and toUserId required"]
         ELSE NoResp
    [] q.op = "burn" ->
         IF Role(q.caller) # "admin" THEN [code |-> 403, error |-> "Admin only"]
         ELSE IF q.itemId = "" THEN [code |-> 400, error |-> "itemId required"]
         ELSE NoResp
    [] q.op = "itemsCreate" ->
         IF Role(q.caller) # "admin" THEN [code |-> 403, error |-> "Admin only"]
         ELSE IF q.note = ""
           THEN [code |-> 400, error |-> "name and numeric price required"]
         ELSE NoResp
    [] q.op \in {"itemsDelete", "itemsClear"} ->
         IF Role(q.caller) # "admin" THEN [code |-> 403, error |-> "Admin only"]
         ELSE NoResp
    [] q.op = "dbImport" ->
         IF Role(q.caller) # "admin" THEN [code |-> 403, error |-> "Admin only"]
         ELSE IF {"users", "items", "history"} \ DOMAIN q.db # {}
           THEN [code |-> 400, error |-> "db with users, items, history required"]
         ELSE NoResp

NewPayment(r, q, kind) ==
  [id |-> r, userId |-> q.caller, kind |-> kind, amountTon |-> q.amountTon,
   usd |-> Usd(q.amountTon), tonAddress |-> q.tonAddress, status |-> "pending",
   adminId |-> "", note |-> "none"]

\* DepositRequest with the balance credited at request time
DepositRequestCredits(d, q, r) ==
  LET pay == NewPayment(r, [q EXCEPT !.tonAddress = ""], "deposit")
      d1  == [d EXCEPT !.payments = Append(@, pay),
                       !.users[q.caller].balance = @ + q.amountTon]
      d2  == PushNotify(d1, r, q.caller, "deposit_requested", pay.id, q.amountTon)
  IN Accept(d2, <<Event("notify", q.caller, r),
                  Event("admin:payments:update", "*", r)>>, <<>>)

DepositRequest(d, q, r) ==
  LET pay == NewPayment(r, [q EXCEPT !.tonAddress = ""], "deposit")
      d1  == [d EXCEPT !.payments = Append(@, pay)]
      d2  == PushNotify(d1, r, q.caller, "deposit_requested", pay.id, q.amountTon)
  IN Accept(d2, <<Event("notify", q.caller, r),
                  Event("admin:payments:update", "*", r)>>, <<>>)

\* WithdrawRequest without the hold: the balance is not debited
WithdrawRequestNoHold(d, q, r) ==
  IF q.caller \notin DOMAIN d.users THEN Reject(d, 404, "User not found")
  ELSE IF d.users[q.caller].balance < q.amountTon
    THEN Reject(d, 400, "Insufficient balance")
  ELSE
    LET pay == NewPayment(r, q, "withdraw")
        d1  == [d EXCEPT !.payments = Append(@, pay),
                         !.history = Append(@, Hist(q.caller, "Withdrawal requested",
                                                   q.amountTon, q.tonAddress, ""))]
        d2  == PushNotify(d1, r, q.caller, "withdraw_requested", pay.id, q.amountTon)
    IN Accept(d2, <<Event("notify", q.caller, r),
                    Event("admin:payments:update", "*", r)>>, <<>>)

WithdrawRequest(d, q, r) ==
  IF q.caller \notin DOMAIN d.users THEN Reject(d, 404, "User not found")
  ELSE IF d.users[q.caller].balance < q.amountTon
    THEN Reject(d, 400, "Insufficient balance")
  ELSE
    LET pay == NewPayment(r, q, "withdraw")
        d1  == [d EXCEPT !.users[q.caller].balance = @ - q.amountTon,
                         !.payments = Append(@, pay),
                         !.history = Append(@, Hist(q.caller, "Withdrawal requested",
                                                   q.amountTon, q.tonAddress, ""))]
        d2  == PushNotify(d1, r, q.caller, "withdraw_requested", pay.id, q.amountTon)
    IN Accept(d2, <<Event("notify", q.caller, r),
                    Event("admin:payments:update", "*", r)>>, <<>>)

Approve(d, q, r) ==
  LET i == FindById(d.payments, q.id) IN
  IF i = 0 THEN Reject(d, 404, "Payment not found")
  ELSE LET p == d.payments[i] IN
  IF p.status # "pending" THEN Reject(d, 400, "Already processed")
  ELSE IF p.userId \notin DOMAIN d.users THEN Reject(d, 404, "User not found")
  ELSE
    LET d1 == IF p.kind = "deposit"
                THEN [d EXCEPT !.users[p.userId].balance = @ + p.amountTon,
                               !.history = Append(@, Hist(p.userId, "Deposit approved",
                                                         p.amountTon, "", ""))]
              ELSE IF p.kind = "withdraw"
                THEN [d EXCEPT !.history = Append(@, Hist(p.userId, "Withdrawal approved",
                                                         p.amountTon, p.tonAddress, ""))]
              ELSE d
        d2 == [d1 EXCEPT !.payments[i].status = "approved",
                         !.payments[i].adminId = q.caller]
        d3 == PushNotify(d2, r, p.userId, "payment_approved", p.id, p.amountTon)
    IN Accept(d3, <<Event("notify", p.userId, r)>>,
                  <<Event("admin:payments:update", "*", r)>>)

RejectPayment(d, q, r) ==
  LET i == FindById(d.payments, q.id) IN
  IF i = 0 THEN Reject(d, 404, "Payment not found")
  ELSE LET p == d.payments[i] IN
  IF p.status # "pending" THEN Reject(d, 400, "Already processed")
  ELSE IF p.userId \notin DOMAIN d.users THEN Reject(d, 404, "User not found")
  ELSE
    LET d1 == IF p.kind = "withdraw"
                THEN [d EXCEPT !.users[p.userId].balance = @ + p.amountTon,
                               !.history = Append(@, Hist(p.userId, "Withdrawal rejected",
                                                         p.amountTon, "", ""))]
              ELSE d
        d2 == [d1 EXCEPT !.payments[i].status = "rejected",
                         !.payments[i].adminId = q.caller,
                         !.payments[i].note = q.note]
        d3 == PushNotify(d2, r, p.userId, "payment_rejected", p.id, p.amountTon)
    IN Accept(d3, <<Event("notify", p.userId, r)>>,
                  <<Event("admin:payments:update", "*", r)>>)

TxPayClientPrice(d, q, r) ==
  LET i == FindById(d.items, q.itemId) IN
  IF i = 0 THEN Reject(d, 404, "Item not found")
  ELSE LET item == d.items[i]
           price == q.price
           buyer == d.users[q.caller] IN
  IF item.ownerId # "" THEN Reject(d, 400, "Already sold")
  ELSE IF q.mode = "buy" THEN
    IF buyer.balance < price THEN Reject(d, 400, "Insufficient balance")
    ELSE Accept([d EXCEPT !.users[q.caller].balance = @ - price,
                          !.items[i].ownerId = q.caller,
                          !.users[q.caller].owned = Append(@, item.id),
                          !.history = Append(@, Hist(q.caller, "Bought", price, item.id, ""))],
                <<>>, <<Event("market:update", "*", r)>>)
  ELSE IF q.mode = "gift" THEN
    IF q.toUserId = "" THEN Reject(d, 400, "toUserId required for gift mode")
    ELSE IF q.toUserId \notin DOMAIN d.users THEN Reject(d, 404, "Recipient not found")
    ELSE IF buyer.balance < price THEN Reject(d, 400, "Insufficient balance")
    ELSE
      LET d1 == [d EXCEPT !.users[q.caller].balance = @ - price]
          d2 == [d1 EXCEPT !.items[i].ownerId = q.toUserId,
                           !.users[q.toUserId].owned = Append(@, item.id),
                           !.users[q.toUserId].gifts = @ + 1]
          d3 == [d2 EXCEPT !.history =
                   Append(Append(@, Hist(q.caller, "Gifted", price, item.id, q.toUserId)),
                          Hist(q.toUserId, "Received gift", 0, item.id, q.caller))]
      IN Accept(d3, <<>>, <<Event("market:update", "*", r)>>)
  ELSE Reject(d, 400, "Invalid mode")

\* TxPay whose buy saves after the debit, before the owner is set
TxPayDebitOnly(d, q, r) ==
  LET i == FindById(d.items, q.itemId) IN
  IF i = 0 THEN Reject(d, 404, "Item not found")
  ELSE LET item == d.items[i]
           price == item.price
           buyer == d.users[q.caller] IN
  IF item.ownerId # "" THEN Reject(d, 400, "Already sold")
  ELSE IF q.mode = "buy" THEN
    IF buyer.balance < price THEN Reject(d, 400, "Insufficient balance")
    ELSE Accept([d EXCEPT !.users[q.caller].balance = @ - price],
                <<>>, <<Event("market:update", "*", r)>>)
  ELSE IF q.mode = "gift" THEN
    IF q.toUserId = "" THEN Reject(d, 400, "toUserId required for gift mode")
    ELSE IF q.toUserId \notin DOMAIN d.users THEN Reject(d, 404, "Recipient not found")
    ELSE IF buyer.balance < price THEN Reject(d, 400, "Insufficient balance")
    ELSE
      LET d1 == [d EXCEPT !.users[q.caller].balance = @ - price]
          d2 == [d1 EXCEPT !.items[i].ownerId = q.toUserId,
                           !.users[q.toUserId].owned = Append(@, item.id),
                           !.users[q.toUserId].gifts = @ + 1]
          d3 == [d2 EXCEPT !.history =
                   Append(Append(@, Hist(q.caller, "Gifted", price, item.id, q.toUserId)),
                          Hist(q.toUserId, "Received gift", 0, item.id, q.caller))]
      IN Accept(d3, <<>>, <<Event("market:update", "*", r)>>)
  ELSE Reject(d, 400, "Invalid mode")

TxPay(d, q, r) ==
  LET i == FindById(d.items, q.itemId) IN
  IF i = 0 THEN Reject(d, 404, "Item not found")
  ELSE LET item == d.items[i]
           price == item.price
           buyer == d.users[q.caller] IN
  IF item.ownerId # "" THEN Reject(d, 400, "Already sold")
  ELSE IF q.mode = "buy" THEN
    IF buyer.balance < price THEN Reject(d, 400, "Insufficient balance")
    ELSE Accept([d EXCEPT !.users[q.caller].balance = @ - price,
                          !.items[i].ownerId = q.caller,
                          !.users[q.caller].owned = Append(@, item.id),
                          !.history = Append(@, Hist(q.caller, "Bought", price, item.id, ""))],
                <<>>, <<Event("market:update", "*", r)>>)
  ELSE IF q.mode = "gift" THEN
    IF q.toUserId = "" THEN Reject(d, 400, "toUserId required for gift mode")
    ELSE IF q.toUserId \notin DOMAIN d.users THEN Reject(d, 404, "Recipient not found")
    ELSE IF buyer.balance < price THEN Reject(d, 400, "Insufficient balance")
    ELSE
      LET d1 == [d EXCEPT !.users[q.caller].balance = @ - price]
          d2 == [d1 EXCEPT !.items[i].ownerId = q.toUserId,
                           !.users[q.toUserId].owned = Append(@, item.id),
                           !.users[q.toUserId].gifts = @ + 1]
          d3 == [d2 EXCEPT !.history =
                   Append(Append(@, Hist(q.caller, "Gifted", price, item.id, q.toUserId)),
                          Hist(q.toUserId, "Received gift", 0, item.id, q.caller))]
      IN Accept(d3, <<>>, <<Event("market:update", "*", r)>>)
  ELSE Reject(d, 400, "Invalid mode")

Max(a, b) == IF a >= b THEN a ELSE b

Upgrade(d, q, r) ==
  LET i == FindById(d.items, q.itemId) IN
  IF i = 0 THEN Reject(d, 404, "Item not found")
  ELSE LET item == d.items[i] IN
  IF item.ownerId # q.caller THEN Reject(d, 403, "Not owner")
  ELSE
    LET stars == Max(0, item.stars - 1)
        level == item.level + 1
    IN Accept([d EXCEPT !.items[i].stars = stars,
                        !.items[i].level = level,
                        !.history = Append(@, Hist(q.caller, "Upgraded", level, item.id,
                                                  ToString(stars)))],
              <<>>, <<Event("market:update", "*", r)>>)

AdminGiftChargesAdmin(d, q, r) ==
  LET i == FindById(d.items, q.itemId) IN
  IF q.toUserId \notin DOMAIN d.users THEN Reject(d, 404, "User not found")
  ELSE IF i = 0 THEN Reject(d, 404, "Item not found")
  ELSE LET item == d.items[i]
           price == item.price
           user == d.users[q.toUserId] IN
  IF item.ownerId # "" THEN Reject(d, 400, "Already owned")
  ELSE IF user.balance < price
    THEN Reject(d, 400, "Recipient has insufficient balance to be charged")
  ELSE Accept([d EXCEPT !.users[q.caller].balance = @ - price,
                        !.items[i].ownerId = q.toUserId,
                        !.users[q.toUserId].owned = Append(@, item.id),
                        !.users[q.toUserId].gifts = @ + 1,
                        !.history = Append(@, Hist(q.toUserId, "Admin issued gift", price,
                                                  item.id, ""))],
              <<>>, <<Event("market:update", "*", r)>>)

AdminGift(d, q, r) ==
  LET i == FindById(d.items, q.itemId) IN
  IF q.toUserId \notin DOMAIN d.users THEN Reject(d, 404, "User not found")
  ELSE IF i = 0 THEN Reject(d, 404, "Item not found")
  ELSE LET item == d.items[i]
           price == item.price
           user == d.users[q.toUserId] IN
  IF item.ownerId # "" THEN Reject(d, 400, "Already owned")
  ELSE IF user.balance < price
    THEN Reject(d, 400, "Recipient has insufficient balance to be charged")
  ELSE Accept([d EXCEPT !.users[q.toUserId].balance = @ - price,
                        !.items[i].ownerId = q.toUserId,
                        !.users[q.toUserId].owned = Append(@, item.id),
                        !.users[q.toUserId].gifts = @ + 1,
                        !.history = Append(@, Hist(q.toUserId, "Admin issued gift", price,
                                                  item.id, ""))],
              <<>>, <<Event("market:update", "*", r)>>)

BalanceAdjustNoFloor(d, q, r) ==
  IF q.toUserId \notin DOMAIN d.users THEN Reject(d, 404, "User not found")
  ELSE Accept([d EXCEPT !.users[q.toUserId].balance = @ + q.delta,
                        !.history = Append(@, Hist(q.toUserId, "Admin balance debit",
                                                  0 - q.delta, "", ""))],
              <<>>, <<>>)

BalanceAdjust(d, q, r) ==
  IF q.toUserId \notin DOMAIN d.users THEN Reject(d, 404, "User not found")
  ELSE Accept([d EXCEPT !.users[q.toUserId].balance = Max(0, @ + q.delta),
                        !.history = Append(@, Hist(q.toUserId,
                                                  IF q.delta >= 0 THEN "Admin balance credit"
                                                                  ELSE "Admin balance debit",
                                                  IF q.delta >= 0 THEN q.delta ELSE 0 - q.delta,
                                                  "", ""))],
              <<>>, <<>>)

\* one own property of the request body: a string value v or a numeric value n
Field(k, v, n) == [k |-> k, v |-> v, n |-> n]

\* Object.assign(it, fields)
Assign(it, fields) ==
  LET F[k \in 0..Len(fields)] ==
        IF k = 0 THEN it
        ELSE LET f == fields[k] IN
             CASE f.k = "ownerId" -> [F[k - 1] EXCEPT !.ownerId = f.v]
               [] f.k = "price"   -> [F[k - 1] EXCEPT !.price = f.n]
               [] f.k = "stars"   -> [F[k - 1] EXCEPT !.stars = f.n]
               [] f.k = "level"   -> [F[k - 1] EXCEPT !.level = f.n]
  IN F[Len(fields)]

ItemsUpdate(d, q, r) ==
  LET i == FindById(d.items, q.itemId) IN
  IF i = 0 THEN Reject(d, 404, "Item not found")
  ELSE Accept([d EXCEPT !.items[i] = Assign(@, q.fields)],
              <<>>, <<Event("market:update", "*", r)>>)

\* items.forEach(x => db.items.push({id: 'nft_'+(1000+db.items.length), ...}))
ImportItems(items, xs) ==
  LET F[k \in 0..Len(xs)] ==
        IF k = 0 THEN items
        ELSE Append(F[k - 1],
                    [id |-> ItemId(Len(F[k - 1])), price |-> xs[k].price,
                     stars |-> IF xs[k].stars = 0 THEN 3 ELSE xs[k].stars,
                     level |-> xs[k].level, ownerId |-> xs[k].ownerId])
  IN F[Len(xs)]

BulkImport(d, q, r) ==
  Accept([d EXCEPT !.items = ImportItems(@, q.items)],
         <<>>, <<Event("market:update", "*", r)>>)

\* owned.filter(id => id !== it.id)
Without(owned, id) == LET Keep(x) == x # id IN SelectSeq(owned, Keep)

\* owned.includes(id)
Includes(owned, id) == \E k \in 1..Len(owned) : owned[k] = id

Transfer(d, q, r) ==
  LET i == FindById(d.items, q.itemId) IN
  IF i = 0 THEN Reject(d, 404, "Item not found")
  ELSE IF q.toUserId \notin DOMAIN d.users THEN Reject(d, 404, "Target user not found")
  ELSE
    LET it == d.items[i]
        d1 == IF it.ownerId # "" /\ it.ownerId \in DOMAIN d.users
                THEN [d EXCEPT !.users[it.ownerId].owned = Without(@, it.id)]
                ELSE d
        d2 == [d1 EXCEPT !.items[i].ownerId = q.toUserId,
                         !.users[q.toUserId].owned =
                            IF Includes(@, it.id) THEN @ ELSE Append(@, it.id),
                         !.history = Append(@, Hist(q.toUserId, "Admin transferred", 0,
                                                   it.id, q.toUserId))]
    IN Accept(d2, <<>>, <<Event("market:update", "*", r)>>)

Burn(d, q, r) ==
  LET i == FindById(d.items, q.itemId) IN
  IF i = 0 THEN Reject(d, 404, "Item not found")
  ELSE
    LET it == d.items[i]
        Other(x) == x.id # it.id
        d1 == IF it.ownerId # "" /\ it.ownerId \in DOMAIN d.users
                THEN [d EXCEPT !.users[it.ownerId].owned = Without(@, it.id)]
                ELSE d
        d2 == [d1 EXCEPT !.items = SelectSeq(@, Other),
                         !.history = Append(@, Hist(IF it.ownerId # "" THEN it.ownerId
                                                                      ELSE "system",
                                                   "Admin burned", 0, it.id, ""))]
    IN Accept(d2, <<>>, <<Event("market:update", "*", r)>>)

ItemsCreate(d, q, r) ==
  Accept([d EXCEPT !.items = Append(@, [id |-> ItemId(Len(d.items)), price |-> q.price,
                                        stars |-> 3, level |-> 0, ownerId |-> ""])],
         <<>>, <<Event("market:update", "*", r)>>)

\* db.items.splice(idx, 1)
ItemsDelete(d, q, r) ==
  LET i == FindById(d.items, q.itemId) IN
  IF i = 0 THEN Reject(d, 404, "Item not found")
  ELSE Accept([d EXCEPT !.items = SubSeq(@, 1, i - 1) \o SubSeq(@, i + 1, Len(@))],
              <<>>, <<Event("market:update", "*", r)>>)

ItemsClear(d, q, r) ==
  Accept([d EXCEPT !.items = <<>>], <<>>, <<Event("market:update", "*", r)>>)

\* the mutator handed to transact, by route
Mutator(d, q, r) ==
  CASE q.op = "deposit"  -> DepositRequest(d, q, r)
    [] q.op = "withdraw" -> WithdrawRequest(d, q, r)
    [] q.op = "approve"  -> Approve(d, q, r)
    [] q.op = "reject"   -> RejectPayment(d, q, r)
    [] q.op = "pay"      -> TxPay(d, q, r)
    [] q.op = "upgrade"  -> Upgrade(d, q, r)
    [] q.op = "adminGift" -> AdminGift(d, q, r)
    [] q.op = "balance"  -> BalanceAdjust(d, q, r)
    [] q.op = "itemsUpdate" -> ItemsUpdate(d, q, r)
    [] q.op = "bulkImport" -> BulkImport(d, q, r)
    [] q.op = "transfer" -> Transfer(d, q, r)
    [] q.op = "burn" -> Burn(d, q, r)
    [] q.op = "itemsCreate" -> ItemsCreate(d, q, r)
    [] q.op = "itemsDelete" -> ItemsDelete(d, q, r)
    [] q.op = "itemsClear" -> ItemsClear(d, q, r)

\* -------------------------------------------------------------- store
EmptyUser == [balance |-> 0, owned |-> <<>>, gifts |-> 0]

\* defaultDB, with the collections the handlers create on first use
defaultDB ==
  [users |-> [u \in {} |-> EmptyUser], items |-> <<>>, payments |-> <<>>,
   history |-> <<>>, notifications |-> <<>>]

loadDB == file

saveDB(d) == file' = d

\* --------------------------------------------------------------- steps
\* A request arrives; the handler runs up to its first await.
Arrive(r, q) ==
  /\ pc[r] = "idle"
  /\ \A k \in Reqs : k < r => pc[k] # "idle"
  /\ req' = [req EXCEPT ![r] = q]
  /\ IF Precheck(q) = NoResp
       THEN /\ pc' = [pc EXCEPT ![r] = "load"]
            /\ resp' = resp
       ELSE /\ pc' = [pc EXCEPT ![r] = "done"]
            /\ resp' = [resp EXCEPT ![r] = Precheck(q)]
  /\ UNCHANGED <<file0, file, db, loaded, emitted>>

\* transact: const db = await loadDB()
Load(r) ==
  /\ pc[r] = "load"
  /\ db' = [db EXCEPT ![r] = loadDB]
  /\ loaded' = [loaded EXCEPT ![r] = loadDB]
  /\ pc' = [pc EXCEPT ![r] = "loaded"]
  /\ UNCHANGED <<file0, file, req, resp, emitted>>

\* transact: db = await loadDB() while the writeFile of another request is in
\* flight: readFile returns the truncated file, empty or cut short.  The text
\* does not parse and loadDB returns defaultDB; when the text was empty loadDB
\* has first written defaultDB to the file
LoadTorn(r) ==
  /\ pc[r] = "load"
  /\ \E k \in Reqs \ {r} : pc[k] \in {"save1", "save2"}
  /\ db' = [db EXCEPT ![r] = defaultDB]
  /\ loaded' = [loaded EXCEPT ![r] = defaultDB]
  /\ \E empty \in BOOLEAN : file' = IF empty THEN defaultDB ELSE file
  /\ pc' = [pc EXCEPT ![r] = "loaded"]
  /\ UNCHANGED <<file0, req, resp, emitted>>

\* transact: await mutator(db), up to the mutator's own await saveDB(db);
\* a rejecting mutator answers and returns, and transact goes on to its saveDB
Mutate(r) ==
  /\ pc[r] = "loaded"
  /\ LET out == Mutator(db[r], req[r], r) IN
       /\ db' = [db EXCEPT ![r] = out.db]
       /\ emitted' = emitted \o out.pre
       /\ IF out.code = 200
            THEN /\ pc' = [pc EXCEPT ![r] = "save1"]
                 /\ resp' = resp
            ELSE /\ pc' = [pc EXCEPT ![r] = "save2"]
                 /\ resp' = [resp EXCEPT ![r] = [code |-> out.code, error |-> out.error]]
  /\ UNCHANGED <<file0, file, req, loaded>>

\* the mutator's await saveDB(db) completes
Write1(r) ==
  /\ pc[r] = "save1"
  /\ saveDB(db[r])
  /\ pc' = [pc EXCEPT ![r] = "respond"]
  /\ UNCHANGED <<file0, req, db, loaded, resp, emitted>>

\* the mutator's code after its saveDB: io.emit, res.json; then transact's saveDB starts
Respond(r) ==
  /\ pc[r] = "respond"
  /\ emitted' = emitted \o Mutator(loaded[r], req[r], r).post
  /\ resp' = [resp EXCEPT ![r] = [code |-> 200, error |-> ""]]
  /\ pc' = [pc EXCEPT ![r] = "save2"]
  /\ UNCHANGED <<file0, file, req, db, loaded>>

\* transact: await saveDB(db) completes; return result
Write2(r) ==
  /\ pc[r] = "save2"
  /\ saveDB(db[r])
  /\ pc' = [pc EXCEPT ![r] = "done"]
  /\ UNCHANGED <<file0, req, db, loaded, resp, emitted>>

\* the mutator's await saveDB(db) fails: fs.writeFile rejects (disk full, no
\* descriptor, no permission) with the file untouched, or truncated or cut
\* short, which loadDB reads as defaultDB.  The rejection goes up through the
\* mutator, transact and the route handler, none of which catches it: the
\* code after the saveDB does not run and no answer is sent
Write1Fail(r) ==
  /\ pc[r] = "save1"
  /\ \E torn \in BOOLEAN : file' = IF torn THEN defaultDB ELSE file
  /\ pc' = [pc EXCEPT ![r] = "failed"]
  /\ UNCHANGED <<file0, req, db, loaded, resp, emitted>>

\* transact's await saveDB(db) fails, after the mutator has answered
Write2Fail(r) ==
  /\ pc[r] = "save2"
  /\ \E torn \in BOOLEAN : file' = IF torn THEN defaultDB ELSE file
  /\ pc' = [pc EXCEPT ![r] = "failed"]
  /\ UNCHANGED <<file0, req, db, loaded, resp, emitted>>

\* POST /api/admin/db/import: the checks made before `await saveDB(db)`
ArriveImport(r, q) ==
  /\ pc[r] = "idle"
  /\ \A k \in Reqs : k < r => pc[k] # "idle"
  /\ req' = [req EXCEPT ![r] = q]
  /\ IF Precheck(q) = NoResp
       THEN /\ pc' = [pc EXCEPT ![r] = "import"]
            /\ resp' = resp
       ELSE /\ pc' = [pc EXCEPT ![r] = "done"]
            /\ resp' = [resp EXCEPT ![r] = Precheck(q)]
  /\ UNCHANGED <<file0, file, db, loaded, emitted>>

\* POST /api/admin/db/import: saveDB(db) of the body's document completes, then
\* io.emit and res.json; no loadDB, no transact
ImportWrite(r) ==
  /\ pc[r] = "import"
  /\ saveDB(req[r].db)
  /\ emitted' = Append(emitted, Event("market:update", "*", r))
  /\ resp' = [resp EXCEPT ![r] = [code |-> 200, error |-> ""]]
  /\ pc' = [pc EXCEPT ![r] = "done"]
  /\ UNCHANGED <<file0, req, db, loaded>>

\* ------------------------------------------------------ initial states

\* seed(): three users with balance 0, an empty market
SeedDB ==
  [users |-> [u \in Users |-> EmptyUser], items |-> <<>>, payments |-> <<>>,
   history |-> <<>>, notifications |-> <<>>]

InitRequests ==
  /\ pc = [r \in Reqs |-> "idle"]
  /\ req = [r \in Reqs |-> NoReq]
  /\ db = [r \in Reqs |-> NoDB]
  /\ loaded = [r \in Reqs |-> NoDB]
  /\ resp = [r \in Reqs |-> NoResp]
  /\ emitted = <<>>

\* ------------------------------------------- payments: deposit, withdraw
\* the id of a payment requested before the first modelled request
OldPay == MaxReq + 1

PayRequests ==
  {[NoReq EXCEPT !.op = "deposit", !.caller = "u_1001", !.amountTon = a] : a \in 0..MaxAmt}
  \cup {[NoReq EXCEPT !.op = "withdraw", !.caller = "u_1001", !.amountTon = a,
                      !.tonAddress = "EQabcd"] : a \in 0..MaxAmt}
  \cup {[NoReq EXCEPT !.op = "withdraw", !.caller = "u_1001", !.amountTon = 1,
                      !.tonAddress = "EQ1"]}
  \cup {[NoReq EXCEPT !.op = o, !.caller = "u_admin", !.id = i, !.note = "no"] :
          o \in {"approve", "reject"}, i \in 0..OldPay}
  \cup {[NoReq EXCEPT !.op = o, !.caller = "u_1001", !.id = 1] : o \in {"approve", "reject"}}

\* a payment request made and completed before the first modelled request
EarlierRequests ==
  {[NoReq EXCEPT !.op = o, !.caller = "u_1001", !.amountTon = 1, !.tonAddress = "EQabcd"] :
     o \in {"deposit", "withdraw"}}

\* the file after the seed and admin balance credits to u_1001, and possibly
\* one earlier payment request
InitPay ==
  /\ \E b \in 0..MaxBal :
       LET d == [SeedDB EXCEPT !.users["u_1001"].balance = b] IN
         \/ file = d
         \/ \E q \in EarlierRequests : file = Mutator(d, q, OldPay).db
  /\ file0 = file
  /\ InitRequests

SubmitPay(r) == \E q \in PayRequests : Arrive(r, q)

NextPay ==
  \E r \in Reqs :
    SubmitPay(r) \/ Load(r) \/ Mutate(r) \/ Write1(r) \/ Respond(r) \/ Write2(r)

SpecPay == InitPay /\ [][NextPay]_vars

\* ---------------------- payments: the well-formed requests of one user
\* deposit and withdrawal requests that pass the checks before transact, and
\* an admin's approve and reject of a payment another request creates
HoldRequests(r) ==
  {[NoReq EXCEPT !.op = o, !.caller = "u_1001", !.amountTon = a,
                 !.tonAddress = IF o = "withdraw" THEN "EQabcd" ELSE ""] :
     o \in {"deposit", "withdraw"}, a \in 1..MaxAmt}
  \cup {[NoReq EXCEPT !.op = o, !.caller = "u_admin", !.id = i, !.note = "no"] :
          o \in {"approve", "reject"}, i \in Reqs \ {r}}

\* the file after the seed and admin balance credits to u_1001
InitHold ==
  /\ \E b \in 0..MaxBal : file = [SeedDB EXCEPT !.users["u_1001"].balance = b]
  /\ file0 = file
  /\ InitRequests

SubmitHold(r) == \E q \in HoldRequests(r) : Arrive(r, q)

NextHold ==
  \E r \in Reqs :
    SubmitHold(r) \/ Load(r) \/ Mutate(r) \/ Write1(r) \/ Respond(r) \/ Write2(r)

SpecHold == InitHold /\ [][NextHold]_vars

\* ------------------------------------------------ market: buy and gift
\* POST /api/admin/items/create on the empty market: 'nft_'+(1000+0), stars 3, level 0
NewItem(price) ==
  [id |-> "nft_1000", price |-> price, stars |-> 3, level |-> 0, ownerId |-> ""]

MarketRequests ==
  {[NoReq EXCEPT !.op = "pay", !.caller = u, !.itemId = "nft_1000", !.mode = "buy"] :
     u \in {"u_1001", "u_1002"}}
  \cup {[NoReq EXCEPT !.op = "pay", !.caller = "u_1001", !.itemId = i, !.mode = "buy"] :
          i \in {"", "nft_1001"}}
  \cup {[NoReq EXCEPT !.op = "pay", !.caller = "u_1001", !.itemId = "nft_1000",
                      !.mode = "gift", !.toUserId = t] : t \in {"", "u_1002", "u_0"}}
  \cup {[NoReq EXCEPT !.op = "pay", !.caller = "u_1002", !.itemId = "nft_1000",
                      !.mode = "sell"]}

\* the file after the seed, admin balance credits and one item created
InitMarket ==
  /\ \E b1, b2 \in 0..MaxBal, p \in 1..MaxPrice :
       file = [SeedDB EXCEPT !.users["u_1001"].balance = b1,
                             !.users["u_1002"].balance = b2,
                             !.items = <<NewItem(p)>>]
  /\ file0 = file
  /\ InitRequests

SubmitMarket(r) == \E q \in MarketRequests : Arrive(r, q)

NextMarket ==
  \E r \in Reqs :
    SubmitMarket(r) \/ Load(r) \/ Mutate(r) \/ Write1(r) \/ Respond(r) \/ Write2(r)

SpecMarket == InitMarket /\ [][NextMarket]_vars

\* ------------------------- admin item maintenance next to a market buy

\* one element of the items array of a bulk import (stars 0: not sent)
ImportedItem(price, ownerId) ==
  [price |-> price, stars |-> 0, level |-> 0, ownerId |-> ownerId]

ItemsRequests ==
  {[NoReq EXCEPT !.op = "itemsUpdate", !.caller = "u_admin", !.itemId = "nft_1000",
                 !.fields = f] :
     f \in {<<>>, <<Field("ownerId", "u_1001", 0)>>, <<Field("ownerId", "u_0", 0)>>,
            <<Field("ownerId", "", 0)>>, <<Field("price", "", MaxPrice)>>,
            <<Field("stars", "", 1), Field("level", "", 1)>>}}
  \cup {[NoReq EXCEPT !.op = "itemsUpdate", !.caller = c, !.itemId = i] :
          c \in {"u_admin", "u_1001"}, i \in {"", "nft_1001"}}
  \cup {[NoReq EXCEPT !.op = "bulkImport", !.caller = c, !.items = xs] :
          c \in {"u_admin", "u_1001"},
          xs \in {<<>>, <<ImportedItem(1, "")>>, <<ImportedItem(1, "u_1002")>>}}
  \cup {[NoReq EXCEPT !.op = "pay", !.caller = "u_1001", !.itemId = "nft_1000",
                      !.mode = "buy"]}

InitItems ==
  /\ \E b1 \in 0..MaxBal, p \in 1..MaxPrice :
       file = [SeedDB EXCEPT !.users["u_1001"].balance = b1,
                             !.items = <<NewItem(p)>>]
  /\ file0 = file
  /\ InitRequests

SubmitItems(r) == \E q \in ItemsRequests : Arrive(r, q)

NextItems ==
  \E r \in Reqs :
    SubmitItems(r) \/ Load(r) \/ Mutate(r) \/ Write1(r) \/ Respond(r) \/ Write2(r)

SpecItems == InitItems /\ [][NextItems]_vars

\* ------------------------------- market: buy, gift and admin gift of one item

\* the bodies carry a price or amount of their own, which no handler reads
GiftRequests ==
  {[NoReq EXCEPT !.op = "pay", !.caller = "u_1001", !.itemId = "nft_1000",
                 !.mode = "buy", !.price = 0],
   [NoReq EXCEPT !.op = "pay", !.caller = "u_1001", !.itemId = "nft_1000",
                 !.mode = "gift", !.toUserId = "u_1002", !.price = 1],
   [NoReq EXCEPT !.op = "adminGift", !.caller = "u_admin", !.itemId = "nft_1000",
                 !.toUserId = "u_1002", !.amountTon = 1],
   [NoReq EXCEPT !.op = "adminGift", !.caller = "u_admin", !.itemId = "nft_1000",
                 !.toUserId = "u_0"],
   [NoReq EXCEPT !.op = "adminGift", !.caller = "u_1001", !.itemId = "nft_1000",
                 !.toUserId = "u_1001"]}

InitGift == InitMarket

SubmitGift(r) == \E q \in GiftRequests : Arrive(r, q)

NextGift ==
  \E r \in Reqs :
    SubmitGift(r) \/ Load(r) \/ Mutate(r) \/ Write1(r) \/ Respond(r) \/ Write2(r)

SpecGift == InitGift /\ [][NextGift]_vars

\* ------------- buy and withdrawal hold, with reads during a write in flight

AtomicRequests(r) ==
  {[NoReq EXCEPT !.op = "pay", !.caller = "u_1001", !.itemId = "nft_1000",
                 !.mode = "buy"],
   [NoReq EXCEPT !.op = "withdraw", !.caller = "u_1001", !.amountTon = 1,
                 !.tonAddress = "EQabcd"]}
  \cup {[NoReq EXCEPT !.op = "reject", !.caller = "u_admin", !.id = i, !.note = "no"] :
          i \in Reqs \ {r}}

InitAtomic ==
  /\ \E b \in 0..MaxBal, p \in 1..MaxPrice :
       file = [SeedDB EXCEPT !.users["u_1001"].balance = b,
                             !.items = <<NewItem(p)>>]
  /\ file0 = file
  /\ InitRequests

SubmitAtomic(r) == \E q \in AtomicRequests(r) : Arrive(r, q)

NextAtomic ==
  \E r \in Reqs :
    SubmitAtomic(r) \/ Load(r) \/ LoadTorn(r) \/ Mutate(r) \/ Write1(r) \/ Respond(r)
      \/ Write2(r)

SpecAtomic == InitAtomic /\ [][NextAtomic]_vars

\* --------------------------------------------- upgrades of one owned item

UpgradeRequests ==
  {[NoReq EXCEPT !.op = "upgrade", !.caller = u, !.itemId = "nft_1000"] :
     u \in {"u_1001", "u_1002"}}
  \cup {[NoReq EXCEPT !.op = "upgrade", !.caller = "u_1001", !.itemId = i] :
          i \in {"", "nft_1001"}}

\* the item as created (stars 3, level 0), bought by u_1001 and upgraded n times
UpgradedItem(n) ==
  [NewItem(1) EXCEPT !.ownerId = "u_1001", !.stars = Max(0, 3 - n), !.level = n]

InitUpgrade ==
  /\ \E n \in 0..MaxLevel :
       file = [SeedDB EXCEPT !.users["u_1001"].owned = <<"nft_1000">>,
                             !.items = <<UpgradedItem(n)>>]
  /\ file0 = file
  /\ InitRequests

SubmitUpgrade(r) == \E q \in UpgradeRequests : Arrive(r, q)

NextUpgrade ==
  \E r \in Reqs :
    SubmitUpgrade(r) \/ Load(r) \/ Mutate(r) \/ Write1(r) \/ Respond(r) \/ Write2(r)

SpecUpgrade == InitUpgrade /\ [][NextUpgrade]_vars

\* ------------------- history: withdrawals, balance credits and a db import

HistoryRequests ==
  {[NoReq EXCEPT !.op = "withdraw", !.caller = "u_1001", !.amountTon = 1,
                 !.tonAddress = "EQabcd"],
   [NoReq EXCEPT !.op = "balance", !.caller = "u_admin", !.toUserId = "u_1001",
                 !.delta = 1]}

\* the document imported is the export taken before the requests (file0)
ImportRequests ==
  {[NoReq EXCEPT !.op = "dbImport", !.caller = c, !.db = file0] : c \in {"u_admin", "u_1001"}}
  \cup {[NoReq EXCEPT !.op = "dbImport", !.caller = "u_admin"]}

InitHistory == InitHold

SubmitHistory(r) == \E q \in HistoryRequests : Arrive(r, q)

SubmitImport(r) == \E q \in ImportRequests : ArriveImport(r, q)

NextHistory ==
  \E r \in Reqs :
    SubmitHistory(r) \/ SubmitImport(r) \/ ImportWrite(r) \/ Load(r) \/ Mutate(r)
      \/ Write1(r) \/ Respond(r) \/ Write2(r)

SpecHistory == InitHistory /\ [][NextHistory]_vars

\* --------------------------- a deposit request and a buy, with failing saves

FailRequests ==
  {[NoReq EXCEPT !.op = "deposit", !.caller = "u_1001", !.amountTon = 1],
   [NoReq EXCEPT !.op = "withdraw", !.caller = "u_1001", !.amountTon = MaxAmt,
                 !.tonAddress = "EQabcd"],
   [NoReq EXCEPT !.op = "pay", !.caller = "u_1001", !.itemId = "nft_1000",
                 !.mode = "buy"]}

InitFail == InitAtomic

SubmitFail(r) == \E q \in FailRequests : Arrive(r, q)

NextFail ==
  \E r \in Reqs :
    SubmitFail(r) \/ Load(r) \/ Mutate(r) \/ Write1(r) \/ Write1Fail(r) \/ Respond(r)
      \/ Write2(r) \/ Write2Fail(r)

SpecFail == InitFail /\ [][NextFail]_vars

\* ------------------------- rejections of pay: one sold item, one for sale

ErrorRequests ==
  {[NoReq EXCEPT !.op = "pay", !.caller = "u_1001", !.itemId = i, !.mode = m] :
     i \in {"nft_1000", "nft_1001"}, m \in {"buy", "sell", ""}}

\* nft_1000 was bought by u_1002; nft_1001 is for sale
InitErrors ==
  /\ \E b \in 0..MaxBal, p \in 1..MaxPrice :
       file = [SeedDB EXCEPT !.users["u_1001"].balance = b,
                             !.users["u_1002"].owned = <<"nft_1000">>,
                             !.items = <<[NewItem(p) EXCEPT !.ownerId = "u_1002"],
                                         [NewItem(p) EXCEPT !.id = ItemId(1)]>>]
  /\ file0 = file
  /\ InitRequests

SubmitErrors(r) == \E q \in ErrorRequests : Arrive(r, q)

NextErrors ==
  \E r \in Reqs :
    SubmitErrors(r) \/ Load(r) \/ Mutate(r) \/ Write1(r) \/ Respond(r) \/ Write2(r)

SpecErrors == InitErrors /\ [][NextErrors]_vars

\* ------------------------- admin transfer next to an admin item update

TransferRequests ==
  {[NoReq EXCEPT !.op = "transfer", !.caller = "u_admin", !.itemId = "nft_1000",
                 !.toUserId = t] : t \in {"u_1001", "u_1002", "u_0", ""}}
  \cup {[NoReq EXCEPT !.op = "transfer", !.caller = c, !.itemId = "nft_1001",
                      !.toUserId = "u_1002"] : c \in {"u_admin", "u_1001"}}
  \cup {[NoReq EXCEPT !.op = "itemsUpdate", !.caller = "u_admin", !.itemId = "nft_1000",
                      !.fields = <<Field("ownerId", "u_1002", 0)>>]}

\* nft_1000 is for sale or was bought by u_1001
InitTransfer ==
  /\ \E p \in 1..MaxPrice, sold \in BOOLEAN :
       file = IF sold
                THEN [SeedDB EXCEPT !.users["u_1001"].owned = <<"nft_1000">>,
                                    !.items = <<[NewItem(p) EXCEPT !.ownerId = "u_1001"]>>]
                ELSE [SeedDB EXCEPT !.items = <<NewItem(p)>>]
  /\ file0 = file
  /\ InitRequests

SubmitTransfer(r) == \E q \in TransferRequests : Arrive(r, q)

NextTransfer ==
  \E r \in Reqs :
    SubmitTransfer(r) \/ Load(r) \/ Mutate(r) \/ Write1(r) \/ Respond(r) \/ Write2(r)

SpecTransfer == InitTransfer /\ [][NextTransfer]_vars

\* ------------------- catalog: items created, imported, deleted and burned

CatalogRequests ==
  {[NoReq EXCEPT !.op = "itemsCreate", !.caller = "u_admin", !.note = n, !.price = 1] :
     n \in {"Item", ""}}
  \cup {[NoReq EXCEPT !.op = "bulkImport", !.caller = "u_admin",
                      !.items = <<ImportedItem(1, "")>>]}
  \cup {[NoReq EXCEPT !.op = o, !.caller = "u_admin", !.itemId = i] :
          o \in {"itemsDelete", "burn"}, i \in {"nft_1000", "nft_1001", "nft_1009"}}
  \cup {[NoReq EXCEPT !.op = "itemsClear", !.caller = c] : c \in {"u_admin", "u_1001"}}
  \cup {[NoReq EXCEPT !.op = "pay", !.caller = "u_1001", !.itemId = "nft_1001",
                      !.mode = "buy"]}

\* two items created: nft_1000 was bought by u_1001, nft_1001 is for sale
InitCatalog ==
  /\ \E b \in 0..MaxBal, p \in 1..MaxPrice :
       file = [SeedDB EXCEPT !.users["u_1001"].balance = b,
                             !.users["u_1001"].owned = <<"nft_1000">>,
                             !.items = <<[NewItem(p) EXCEPT !.ownerId = "u_1001"],
                                         [NewItem(p) EXCEPT !.id = ItemId(1)]>>]
  /\ file0 = file
  /\ InitRequests

SubmitCatalog(r) == \E q \in CatalogRequests : Arrive(r, q)

NextCatalog ==
  \E r \in Reqs :
    SubmitCatalog(r) \/ Load(r) \/ Mutate(r) \/ Write1(r) \/ Respond(r) \/ Write2(r)

SpecCatalog == InitCatalog /\ [][NextCatalog]_vars

\* ------------------- ledger: every operation that debits or credits u_1001

LedgerRequests(r) ==
  {[NoReq EXCEPT !.op = o, !.caller = "u_1001", !.amountTon = MaxAmt,
                 !.tonAddress = IF o = "withdraw" THEN "EQabcd" ELSE ""] :
     o \in {"deposit", "withdraw"}}
  \cup {[NoReq EXCEPT !.op = o, !.caller = "u_admin", !.id = i, !.note = "no"] :
          o \in {"approve", "reject"}, i \in Reqs \ {r}}
  \cup {[NoReq EXCEPT !.op = "pay", !.caller = "u_1001", !.itemId = "nft_1000",
                      !.mode = m, !.toUserId = IF m = "gift" THEN "u_1002" ELSE ""] :
          m \in {"buy", "gift"}}
  \cup {[NoReq EXCEPT !.op = "adminGift", !.caller = "u_admin", !.itemId = "nft_1000",
                      !.toUserId = "u_1001"],
        [NoReq EXCEPT !.op = "balance", !.caller = "u_admin", !.toUserId = "u_1001",
                      !.delta = 0 - MaxAmt]}

InitLedger ==
  /\ \E b \in 0..MaxBal, p \in {1, MaxPrice} :
       file = [SeedDB EXCEPT !.users["u_1001"].balance = b,
                             !.items = <<NewItem(p)>>]
  /\ file0 = file
  /\ InitRequests

SubmitLedger(r) == \E q \in LedgerRequests(r) : Arrive(r, q)

NextLedger ==
  \E r \in Reqs :
    SubmitLedger(r) \/ Load(r) \/ Mutate(r) \/ Write1(r) \/ Respond(r) \/ Write2(r)

SpecLedger == InitLedger /\ [][NextLedger]_vars

\* ============================================================== claims
\* a request inside transact: its snapshot is loaded, its last save not completed
InUnit(r) == pc[r] \in {"loaded", "save1", "respond", "save2"}

\* the mutator of request r has run (db[r] is the snapshot it left)
Ran(r) == pc[r] \in {"save1", "respond", "save2", "done"} /\ "users" \in DOMAIN loaded[r]

\* the mutator of request r took its success path
Succeeded(r) == Ran(r) /\ (pc[r] \in {"save1", "respond"} \/ resp[r].code = 200)

Submitted == {r \in Reqs : pc[r] # "idle"}

\* C1: between a unit of work's load and the completion of its final save, no
\* other unit of work is between its own load and final save.
C1_MutualExclusion ==
  \A r1, r2 \in Reqs : r1 # r2 => ~(InUnit(r1) /\ InUnit(r2))

\* C2: once a request that creates a payment has answered with success, the
\* payment it created is in the persisted snapshot, whatever is saved later.
C2_NoLostUpdate ==
  \A r \in Reqs :
    (req[r].op \in {"deposit", "withdraw"} /\ resp[r].code = 200)
      => \E i \in DOMAIN file.payments : file.payments[i].id = r

\* C3: when every submitted request is a withdrawal by u_1001 of the whole
\* initial balance B > 0, there are at least two of them and all have finished,
\* exactly one got a success answer, the others 'Insufficient balance', the
\* persisted balance is 0 and exactly one pending withdrawal has been added to
\* the persisted payments.
FullWithdraw(r) ==
  /\ req[r].op = "withdraw"
  /\ req[r].caller = "u_1001"
  /\ req[r].tonAddress = "EQabcd"
  /\ req[r].amountTon = file0.users["u_1001"].balance
  /\ req[r].amountTon > 0

PendingWithdrawals(d) ==
  {i \in DOMAIN d.payments :
     d.payments[i].kind = "withdraw" /\ d.payments[i].status = "pending"}

C3_NoDoubleSpend ==
  ( /\ Cardinality(Submitted) >= 2
    /\ \A r \in Submitted : FullWithdraw(r) /\ pc[r] = "done" )
  => /\ Cardinality({r \in Submitted : resp[r].code = 200}) = 1
     /\ \A r \in Submitted :
          resp[r].code # 200 => resp[r] = [code |-> 400, error |-> "Insufficient balance"]
     /\ file.users["u_1001"].balance = 0
     /\ Cardinality(PendingWithdrawals(file)) = Cardinality(PendingWithdrawals(file0)) + 1

\* C4: when every submitted request is a buy of the unsold item nft_1000 by a
\* user who can pay for it, the buyers differ, there are at least two and all
\* have finished, exactly one got a success answer, the others 'Already sold',
\* and the persisted owner is the buyer who got the success answer.
AffordableBuy(r) ==
  /\ req[r].op = "pay"
  /\ req[r].mode = "buy"
  /\ req[r].itemId = "nft_1000"
  /\ file0.users[req[r].caller].balance >= file0.items[1].price

C4_NoDoubleSell ==
  ( /\ Cardinality(Submitted) >= 2
    /\ \A r \in Submitted : AffordableBuy(r) /\ pc[r] = "done"
    /\ \A r1, r2 \in Submitted : r1 # r2 => req[r1].caller # req[r2].caller )
  => /\ Cardinality({r \in Submitted : resp[r].code = 200}) = 1
     /\ \A r \in Submitted :
          /\ resp[r].code # 200 => resp[r] = [code |-> 400, error |-> "Already sold"]
          /\ resp[r].code = 200 => file.items[1].ownerId = req[r].caller

\* C5: the save made for a request that was answered with a rejection leaves
\* the persisted snapshot as it was.
C5_RejectionChangesNothing ==
  [][\A r \in Reqs :
       (pc[r] = "save2" /\ resp[r].code # 200 /\ pc'[r] = "done") => file' = file]_vars

\* C6: nothing is emitted for a request whose mutated snapshot has not been
\* saved yet, and a success answer is given only after that save.
C6_PersistBeforeSideEffects ==
  /\ \A i \in DOMAIN emitted : pc[emitted[i].req] \notin {"loaded", "save1"}
  /\ \A r \in Reqs : resp[r].code = 200 => pc[r] \in {"save2", "done"}

\* C7: a persisted payment that is approved or rejected stays in the persisted
\* snapshot exactly as it is (status, resolving admin, note), whatever is saved.
C7_TerminalImmutable ==
  [][\A i \in DOMAIN file.payments :
       file.payments[i].status \in {"approved", "rejected"}
         => /\ i \in DOMAIN file'.payments
            /\ file'.payments[i] = file.payments[i]]_vars

\* C8: of the approve and reject requests on one payment, at most one is
\* answered with success.
C8_ResolvedOnce ==
  \A r1, r2 \in Reqs :
    ( /\ r1 # r2
      /\ req[r1].op \in {"approve", "reject"}
      /\ req[r2].op \in {"approve", "reject"}
      /\ req[r1].id = req[r2].id
      /\ resp[r1].code = 200 )
    => resp[r2].code # 200

\* the index in snapshot L of the pending payment of the given kind that an
\* approve or reject request q names, 0 if it names none
PendingTarget(L, q, kind) ==
  LET i == FindById(L.payments, q.id) IN
    IF /\ q.op \in {"approve", "reject"}
       /\ i # 0
       /\ L.payments[i].kind = kind
       /\ L.payments[i].status = "pending"
      THEN i ELSE 0

\* the snapshot D is L with one pending payment of request r appended
AppendsPending(L, D, r, kind) ==
  /\ Len(D.payments) = Len(L.payments) + 1
  /\ SubSeq(D.payments, 1, Len(L.payments)) = L.payments
  /\ LET p == D.payments[Len(D.payments)] IN
       /\ p.id = r
       /\ p.kind = kind
       /\ p.status = "pending"
       /\ p.userId = req[r].caller
       /\ p.amountTon = req[r].amountTon

\* C9: in every unit of work, with B the balance in the snapshot it loaded: a
\* withdrawal request of A <= B succeeds and leaves balance B - A and a new
\* pending record, one of A > B is rejected and leaves the snapshot as loaded;
\* rejecting a pending withdrawal of A leaves balance B + A and status
\* rejected; approving it leaves balance B and status approved.
C9_HoldRefund ==
  \A r \in Reqs : Ran(r) =>
    LET q == req[r]
        L == loaded[r]
        D == db[r]
        i == PendingTarget(L, q, "withdraw")
    IN /\ q.op = "withdraw" =>
            IF L.users[q.caller].balance >= q.amountTon
              THEN /\ Succeeded(r)
                   /\ D.users[q.caller].balance = L.users[q.caller].balance - q.amountTon
                   /\ \A u \in Users \ {q.caller} : D.users[u] = L.users[u]
                   /\ AppendsPending(L, D, r, "withdraw")
              ELSE /\ resp[r] = [code |-> 400, error |-> "Insufficient balance"]
                   /\ D = L
       /\ i # 0 =>
            LET p == L.payments[i] IN
              /\ Succeeded(r)
              /\ D.payments[i].status = (IF q.op = "reject" THEN "rejected" ELSE "approved")
              /\ D.users[p.userId].balance =
                   L.users[p.userId].balance + (IF q.op = "reject" THEN p.amountTon ELSE 0)
              /\ \A u \in Users \ {p.userId} : D.users[u] = L.users[u]

\* a withdrawal of A from balance B was held and then refunded by a reject:
\* the persisted balance is B again and the payment is rejected
C9_Witness ==
  \E r1, r2 \in Reqs :
    /\ req[r1].op = "withdraw" /\ resp[r1].code = 200 /\ pc[r1] = "done"
    /\ req[r2].op = "reject" /\ req[r2].id = r1 /\ resp[r2].code = 200 /\ pc[r2] = "done"
    /\ loaded[r1].users["u_1001"].balance = file0.users["u_1001"].balance
    /\ loaded[r2].users["u_1001"].balance = file0.users["u_1001"].balance - req[r1].amountTon
    /\ file.users["u_1001"].balance = file0.users["u_1001"].balance
    /\ \E i \in DOMAIN file.payments :
         file.payments[i].id = r1 /\ file.payments[i].status = "rejected"

\* C10: in every unit of work, with B the balance in the snapshot it loaded: a
\* deposit request succeeds, appends a pending record and leaves every balance
\* as loaded; approving a pending deposit of A leaves balance B + A; rejecting
\* it leaves balance B; and a unit of work raises a balance only by approving
\* a pending deposit or rejecting a pending withdrawal of that user.
C10_DepositEffect ==
  \A r \in Reqs : Ran(r) =>
    LET q == req[r]
        L == loaded[r]
        D == db[r]
        i == PendingTarget(L, q, "deposit")
        w == PendingTarget(L, q, "withdraw")
    IN /\ q.op = "deposit" =>
            /\ Succeeded(r)
            /\ D.users = L.users
            /\ AppendsPending(L, D, r, "deposit")
       /\ i # 0 =>
            LET p == L.payments[i] IN
              /\ Succeeded(r)
              /\ D.payments[i].status = (IF q.op = "approve" THEN "approved" ELSE "rejected")
              /\ D.users[p.userId].balance =
                   L.users[p.userId].balance + (IF q.op = "approve" THEN p.amountTon ELSE 0)
              /\ \A u \in Users \ {p.userId} : D.users[u] = L.users[u]
       /\ \A u \in Users :
            D.users[u].balance > L.users[u].balance
              => \/ i # 0 /\ q.op = "approve" /\ L.payments[i].userId = u
                 \/ w # 0 /\ q.op = "reject" /\ L.payments[w].userId = u

\* a deposit of A was requested with balance B and then approved: the persisted
\* balance was B after the request and is B + A after the approval
C10_Witness ==
  \E r1, r2 \in Reqs :
    /\ req[r1].op = "deposit" /\ resp[r1].code = 200 /\ pc[r1] = "done"
    /\ req[r2].op = "approve" /\ req[r2].id = r1 /\ resp[r2].code = 200 /\ pc[r2] = "done"
    /\ loaded[r2].users["u_1001"].balance = file0.users["u_1001"].balance
    /\ file.users["u_1001"].balance = file0.users["u_1001"].balance + req[r1].amountTon
    /\ \E i \in DOMAIN file.payments :
         file.payments[i].id = r1 /\ file.payments[i].status = "approved"

\* id is in the owned list of user u
Owns(d, u, id) == \E k \in 1..Len(d.users[u].owned) : d.users[u].owned[k] = id

OwnershipConsistent(d) ==
  \A i \in 1..Len(d.items) :
    d.items[i].ownerId # "" =>
      /\ d.items[i].ownerId \in DOMAIN d.users
      /\ Owns(d, d.items[i].ownerId, d.items[i].id)

\* C11: in every persisted snapshot, every item whose owner is set names an
\* existing user whose owned list contains that item's id.
C11_OwnershipConsistent == OwnershipConsistent(file)

\* C12: an item that is owned in the persisted snapshot keeps its owner, and
\* no balance and no owned list changes while it is owned, whatever buy, gift
\* or admin gift is submitted for it.
C12_OwnedNeverResold ==
  [][\A i \in DOMAIN file.items :
       file.items[i].ownerId # ""
         => /\ file'.items[i].ownerId = file.items[i].ownerId
            /\ file'.users = file.users]_vars

\* C13: every balance in every persisted snapshot is at least zero, under
\* every interleaving of buy, gift, admin gift, withdrawal and deposit
\* requests, approve, reject and admin balance adjustments.
C13_BalanceNonNegative == \A u \in DOMAIN file.users : file.users[u].balance >= 0

\* a balance adjustment below zero was floored, and a debit was persisted
C13_Witness ==
  /\ file.users["u_1001"].balance = 0
  /\ file0.users["u_1001"].balance = MaxBal
  /\ \E r \in Reqs :
       /\ pc[r] = "done" /\ resp[r].code = 200 /\ req[r].op = "balance"
       /\ loaded[r].users["u_1001"].balance + req[r].delta < 0
  /\ \E r \in Reqs :
       /\ pc[r] = "done" /\ resp[r].code = 200 /\ req[r].op \in {"withdraw", "pay", "adminGift"}

\* the user a successful buy, gift or admin gift charges
Payer(q) == IF q.op = "adminGift" THEN q.toUserId ELSE q.caller

Sale(r) == req[r].op \in {"pay", "adminGift"} /\ Succeeded(r)

StoredPrice(r) == loaded[r].items[FindById(loaded[r].items, req[r].itemId)].price

\* C14: a successful buy, gift or admin gift takes exactly the price stored in
\* the snapshot it works on from exactly one user, whatever price or amount
\* its body carries.
C14_ChargesStoredPrice ==
  \A r \in Reqs :
    Sale(r) =>
      \A u \in DOMAIN loaded[r].users :
        db[r].users[u].balance =
          loaded[r].users[u].balance - (IF u = Payer(req[r]) THEN StoredPrice(r) ELSE 0)

\* a gift whose body names a price other than the stored one was sold and saved
C14_Witness ==
  \E r \in Reqs :
    /\ Sale(r) /\ pc[r] = "done" /\ file = db[r]
    /\ req[r].mode = "gift"
    /\ req[r].price # StoredPrice(r)
    /\ StoredPrice(r) > 0

AdminGifted(r) == req[r].op = "adminGift" /\ Succeeded(r)

\* C16: a successful admin gift takes the stored price from the recipient,
\* makes the recipient the owner, appends the item to the recipient's owned
\* list, adds one to the recipient's gift counter and appends one history
\* entry; the calling admin's record is unchanged; with a recipient balance
\* below the price the admin gift is rejected and changes nothing.
C16_AdminGiftChargesRecipient ==
  \A r \in Reqs :
    LET L == loaded[r]
        D == db[r]
        t == req[r].toUserId
        i == FindById(L.items, req[r].itemId)
    IN /\ AdminGifted(r) =>
            /\ D.users[t].balance = L.users[t].balance - L.items[i].price
            /\ D.items[i].ownerId = t
            /\ D.users[t].owned = Append(L.users[t].owned, L.items[i].id)
            /\ D.users[t].gifts = L.users[t].gifts + 1
            /\ Len(D.history) = Len(L.history) + 1
            /\ D.history[Len(D.history)].userId = t
            /\ req[r].caller # t => D.users[req[r].caller] = L.users[req[r].caller]
       /\ (/\ Ran(r) /\ req[r].op = "adminGift"
           /\ t \in DOMAIN L.users /\ i # 0
           /\ L.users[t].balance < L.items[i].price)
            => /\ ~Succeeded(r)
               /\ D = L
               /\ resp[r].code = 400

\* an admin gift was charged to u_1002 and saved
C16_Witness ==
  \E r \in Reqs :
    /\ AdminGifted(r) /\ pc[r] = "done" /\ file = db[r]
    /\ req[r].caller = "u_admin" /\ req[r].toUserId = "u_1002"
    /\ file.users["u_1002"].balance < loaded[r].users["u_1002"].balance
    /\ file.users["u_admin"] = file0.users["u_admin"]

HistCount(d, t) == Cardinality({k \in DOMAIN d.history : d.history[k].t = t})

WithdrawCount(d, S) ==
  Cardinality({k \in DOMAIN d.payments :
                 d.payments[k].kind = "withdraw" /\ d.payments[k].status \in S})

\* the amount of u held in withdrawals that are not rejected
Held(d, u) ==
  LET F[k \in 0..Len(d.payments)] ==
        IF k = 0 THEN 0
        ELSE F[k - 1] + (IF /\ d.payments[k].userId = u
                            /\ d.payments[k].kind = "withdraw"
                            /\ d.payments[k].status # "rejected"
                           THEN d.payments[k].amountTon ELSE 0)
  IN F[Len(d.payments)]

\* the prices of the items u owns
Spent(d, u) ==
  LET F[k \in 0..Len(d.items)] ==
        IF k = 0 THEN 0
        ELSE F[k - 1] + (IF d.items[k].ownerId = u THEN d.items[k].price ELSE 0)
  IN F[Len(d.items)]

\* every operation that shows in snapshot d shows in it with all its changes
WhollyApplied(d) ==
  /\ \A u \in DOMAIN d.users :
       /\ d.users[u].balance = file0.users[u].balance - Held(d, u) - Spent(d, u)
       /\ \A i \in DOMAIN d.items : d.items[i].ownerId = u <=> Owns(d, u, d.items[i].id)
  /\ \A i \in DOMAIN d.items :
       d.items[i].ownerId # "" <=>
         \E k \in DOMAIN d.history :
           /\ d.history[k].t = "Bought"
           /\ d.history[k].ref = d.items[i].id
           /\ d.history[k].userId = d.items[i].ownerId
  /\ HistCount(d, "Withdrawal requested") = WithdrawCount(d, {"pending", "approved", "rejected"})
  /\ HistCount(d, "Withdrawal rejected") = WithdrawCount(d, {"rejected"})

\* C15: the persisted snapshot, and every snapshot a loadDB has returned while
\* other requests were mutating and saving, shows each buy and each withdrawal
\* hold or refund with all of its changes or with none of them.
C15_NoHalfApplied ==
  /\ WhollyApplied(file)
  /\ \A r \in Reqs : "users" \in DOMAIN loaded[r] => WhollyApplied(loaded[r])

\* a buy and a withdrawal hold are both persisted while a save is in flight
C15_Witness ==
  /\ file.items # <<>> /\ file.items[1].ownerId = "u_1001"
  /\ WithdrawCount(file, {"pending"}) = 1
  /\ \E r \in Reqs : pc[r] \in {"save1", "save2"}

\* C17: while upgrades are the only operations, a persisted item never gets
\* more stars or a lower level from one save to the next, and its stars are
\* never below zero.
C17_MonotonicProgression ==
  [][\A i \in DOMAIN file.items :
       /\ file'.items[i].stars <= file.items[i].stars
       /\ file'.items[i].stars >= 0
       /\ file'.items[i].level >= file.items[i].level]_vars

\* the entries of a are in b, in the same order
IsSubseq(a, b) ==
  LET M[i \in 0..Len(a), j \in 0..Len(b)] ==
        IF i = 0 THEN TRUE
        ELSE IF j = 0 THEN FALSE
        ELSE IF a[i] = b[j] THEN M[i - 1, j - 1]
        ELSE M[i, j - 1]
  IN M[Len(a), Len(b)]

\* C18: every save keeps all entries of the persisted history, unchanged and
\* in their order (the persisted history only grows by appended entries).
C18_HistoryAppendOnly == [][IsSubseq(file.history, file'.history)]_vars

\* C19: when a save of request r fails, r has not been answered with success,
\* nothing has been emitted for r, and the persisted snapshot is what it was
\* before the save.
C19_FailureNotSuccess ==
  [][\A r \in Reqs :
       (pc[r] # "failed" /\ pc'[r] = "failed") =>
         /\ resp'[r].code # 200
         /\ \A i \in DOMAIN emitted' : emitted'[i].req # r
         /\ file' = file]_vars

\* rejections of an entity in a terminal or incompatible state
ConflictErrors == {"Already sold", "Already owned", "Already processed"}

\* rejections of malformed or semantically invalid input
ValidationErrors ==
  {"itemId and mode required", "Insufficient balance", "Invalid mode",
   "toUserId required for gift mode", "amountTon > 0 required",
   "Valid tonAddress required", "id required", "toUserId and itemId required"}

\* C20: a request rejected for a conflict is never answered with the status
\* that a request rejected for its input is answered with.
C20_ConflictDistinct ==
  \A r1, r2 \in Reqs :
    (resp[r1].error \in ConflictErrors /\ resp[r2].error \in ValidationErrors)
      => resp[r1].code # resp[r2].code

\* how often id occurs in an owned list
Occurrences(owned, id) == Cardinality({k \in 1..Len(owned) : owned[k] = id})

\* C21: after a successful transfer to T the item's owner is T, its id is
\* exactly once in T's owned list and in no other user's, and exactly one
\* history entry was appended.
C21_TransferMovesOwnership ==
  \A r \in Reqs :
    (Succeeded(r) /\ req[r].op = "transfer") =>
      LET L == loaded[r]
          D == db[r]
          T == req[r].toUserId
          i == FindById(L.items, req[r].itemId)
      IN /\ D.items[i].ownerId = T
         /\ \A u \in DOMAIN D.users :
              Occurrences(D.users[u].owned, req[r].itemId) = IF u = T THEN 1 ELSE 0
         /\ Len(D.history) = Len(L.history) + 1

\* C22: no saveDB completes for a unit of work that was answered with a
\* rejection (the step that takes such a unit to "done" is the completion of
\* transact's saveDB); the file is written only for units of work that succeed.
C22_NoWriteOnRejection ==
  [][\A r \in Reqs :
       (resp[r].code \notin {0, 200} /\ pc[r] # "done") => pc'[r] # "done"]_vars

\* C23: no two items of the persisted snapshot have the same id.
C23_ItemIdsUnique ==
  \A i, j \in DOMAIN file.items : i # j => file.items[i].id # file.items[j].id

\* C24: in the persisted snapshot every id in a user's owned list is the id of
\* an item that exists and names that user as owner, and no id is twice in one
\* owned list or in the owned lists of two users.
C24_NoDanglingOwnership ==
  \A u \in DOMAIN file.users :
    \A k \in 1..Len(file.users[u].owned) :
      LET id == file.users[u].owned[k] IN
        /\ \E i \in DOMAIN file.items :
             file.items[i].id = id /\ file.items[i].ownerId = u
        /\ Occurrences(file.users[u].owned, id) = 1
        /\ \A v \in DOMAIN file.users \ {u} : Occurrences(file.users[v].owned, id) = 0

====
